---- MODULE Spec2Model ----
(***************************************************************************)
(* Model of usd_cop_scraper.py: the extractor's row loop, the row parser   *)
(* and weekend expansion (process_and_format_data), the exporter           *)
(* (save_data) and the script's main block.                                *)
(*                                                                         *)
(* Python strings are modelled as sequences of one-character strings, so   *)
(* that split, strip, replace, lower, int(), float() and strftime are      *)
(* computed character by character.  The input alphabet is: digits,        *)
(* letters, "/", ",", "-", " ".  Inside that alphabet float() and int()    *)
(* accept the same literals (optional sign, then digits), and every float  *)
(* value is an integer.                                                    *)
(***************************************************************************)
EXTENDS Integers, Sequences, FiniteSets, TLC

VARIABLES
    pc,              \* position of the running script / call
    rows,            \* the <tr> elements of the target table: each a sequence of cell texts
    ri,              \* scrape_with_selenium: position of the row loop (rows handled so far)
    data,            \* scrape_with_selenium: the local list `data`
    raw_data,        \* process_and_format_data: its argument
    current_year,    \* process_and_format_data: datetime.now().year
    idx,             \* process_and_format_data: rows handled so far (the loop's i)
    formatted_data,  \* process_and_format_data: the local list `formatted_data`
    errors,          \* the "Error processing row i: row" reports printed so far
    origin,          \* history: for each entry of formatted_data, the row and branch that appended it
    result,          \* what scrape_with_selenium / process_and_format_data returned
    scrape_error,    \* history: why scrape_with_selenium returned None ("" when it did not)
    exit_code,       \* the process exit status (-1 while running)
    clock,           \* wall clock, in ticks of 1/TicksPerSecond second
    fs,              \* the file system: file name -> content
    dirs,            \* the directories that exist
    save_arg,        \* save_data: its arguments [data, output_path]
    output_path,     \* save_data: the local output_path (after the makedirs fallback)
    timestamp,       \* save_data: the local timestamp
    attempts,        \* history: the writes save_data attempted in this call, in order
    raised,          \* save_data: TRUE when the outer try block raised
    save_ret,        \* what save_data returned ("" while running, "None" for None)
    calls            \* history: the completed save_data calls

vars == <<pc, rows, ri, data, raw_data, current_year, idx, formatted_data, errors,
          origin, result, scrape_error, exit_code, clock, fs, dirs, save_arg,
          output_path, timestamp, attempts, raised, save_ret, calls>>

scrapeVars == <<rows, ri, data>>
processVars == <<raw_data, current_year, idx, formatted_data, errors, origin>>
saveVars == <<clock, fs, dirs, save_arg, output_path, timestamp, attempts, raised,
              save_ret, calls>>

-----------------------------------------------------------------------------
(* Bounds *)

MaxRows == 3        \* longest row list given to process_and_format_data / longest table
MaxCalls == 2       \* save_data calls in one behaviour
MaxClock == 2       \* last clock tick

-----------------------------------------------------------------------------
(* Characters and strings *)

DigitChars == <<"0", "1", "2", "3", "4", "5", "6", "7", "8", "9">>
UpperChars == <<"A", "B", "C", "D", "E", "F", "G", "H", "I", "J", "K", "L", "M",
                "N", "O", "P", "Q", "R", "S", "T", "U", "V", "W", "X", "Y", "Z">>
LowerChars == <<"a", "b", "c", "d", "e", "f", "g", "h", "i", "j", "k", "l", "m",
                "n", "o", "p", "q", "r", "s", "t", "u", "v", "w", "x", "y", "z">>

IsDigit(c) == \E k \in 1..10 : DigitChars[k] = c
DigitVal(c) == (CHOOSE k \in 1..10 : DigitChars[k] = c) - 1

\* str.lower() on one character
LowerChar(c) ==
    IF \E k \in 1..26 : UpperChars[k] = c
    THEN LowerChars[CHOOSE k \in 1..26 : UpperChars[k] = c]
    ELSE c

\* str.lower()
Lower(s) == [k \in 1..Len(s) |-> LowerChar(s[k])]

\* str.strip(): leading and trailing whitespace removed
RECURSIVE LStrip(_)
LStrip(s) == IF s # <<>> /\ s[1] = " " THEN LStrip(Tail(s)) ELSE s
RECURSIVE RStrip(_)
RStrip(s) == IF s # <<>> /\ s[Len(s)] = " " THEN RStrip(SubSeq(s, 1, Len(s) - 1)) ELSE s
Strip(s) == RStrip(LStrip(s))

\* str.split(sep): always at least one part; "" splits into [""]
RECURSIVE Split(_, _)
Split(s, sep) ==
    IF \E k \in 1..Len(s) : s[k] = sep
    THEN LET k == CHOOSE j \in 1..Len(s) : s[j] = sep /\ \A h \in 1..(j - 1) : s[h] # sep
         IN  <<SubSeq(s, 1, k - 1)>> \o Split(SubSeq(s, k + 1, Len(s)), sep)
    ELSE <<s>>

\* str.replace(',', '')
IsNotComma(c) == c # ","
RemoveCommas(s) == SelectSeq(s, IsNotComma)

\* the digits of a literal after strip() and an optional sign
Unsigned(s) ==
    LET t == Strip(s)
    IN  IF t # <<>> /\ t[1] \in {"-", "+"} THEN Tail(t) ELSE t

\* int(s) / float(s) do not raise ValueError
IsNumeric(s) ==
    /\ Unsigned(s) # <<>>
    /\ \A k \in 1..Len(Unsigned(s)) : IsDigit(Unsigned(s)[k])

RECURSIVE DigitsVal(_)
DigitsVal(s) == IF s = <<>> THEN 0 ELSE 10 * DigitsVal(SubSeq(s, 1, Len(s) - 1)) + DigitVal(s[Len(s)])

\* the value of int(s) / float(s) for a literal they accept
NumVal(s) ==
    LET t == Strip(s)
    IN  IF t # <<>> /\ t[1] = "-" THEN 0 - DigitsVal(Unsigned(s)) ELSE DigitsVal(Unsigned(s))

-----------------------------------------------------------------------------
(* Dates: datetime(year, month, day), + timedelta(days=n), strftime *)

IsLeap(y) == (y % 4 = 0 /\ y % 100 # 0) \/ y % 400 = 0

DaysInMonth(y, m) ==
    IF m = 2 THEN (IF IsLeap(y) THEN 29 ELSE 28)
    ELSE IF m \in {4, 6, 9, 11} THEN 30 ELSE 31

\* datetime(y, m, d) does not raise ValueError
ValidDate(y, m, d) ==
    /\ y \in 1..9999
    /\ m \in 1..12
    /\ d \in 1..DaysInMonth(y, m)

NextDay(dt) ==
    IF dt.d < DaysInMonth(dt.y, dt.m) THEN [dt EXCEPT !.d = dt.d + 1]
    ELSE IF dt.m < 12 THEN [dt EXCEPT !.d = 1, !.m = dt.m + 1]
    ELSE [y |-> dt.y + 1, m |-> 1, d |-> 1]

\* dt + timedelta(days=n)
RECURSIVE AddDays(_, _)
AddDays(dt, n) == IF n = 0 THEN dt ELSE AddDays(NextDay(dt), n - 1)

\* n written with at least w digits, zero padded
RECURSIVE Padded(_, _)
Padded(n, w) ==
    IF w <= 1 /\ n < 10 THEN <<DigitChars[n + 1]>>
    ELSE Padded(n \div 10, w - 1) \o <<DigitChars[(n % 10) + 1]>>

\* dt.strftime("%d/%m/%Y")
Strftime(dt) == Padded(dt.d, 2) \o <<"/">> \o Padded(dt.m, 2) \o <<"/">> \o Padded(dt.y, 4)

-----------------------------------------------------------------------------
(* process_and_format_data: one row *)

s_friday == <<"f", "r", "i", "d", "a", "y">>
s_Saturday == <<"S", "a", "t", "u", "r", "d", "a", "y">>
s_Sunday == <<"S", "u", "n", "d", "a", "y">>

\* date_parts = row['Date'].split('/')
DateParts(row) == Split(row.Date, "/")

\* if len(date_parts) == 2
HasTwoParts(row) == Len(DateParts(row)) = 2

\* full_date = datetime(current_year, int(date_parts[1]), int(date_parts[0]))
FullDate(row, year) ==
    [y |-> year, m |-> NumVal(DateParts(row)[2]), d |-> NumVal(DateParts(row)[1])]

\* a variant: a Date that does not split in two raises as well
RowRaisesOnAnyDate(row, year) ==
    \/ ~HasTwoParts(row)
    \/ ~IsNumeric(DateParts(row)[1])
    \/ ~IsNumeric(DateParts(row)[2])
    \/ ~ValidDate(year, NumVal(DateParts(row)[2]), NumVal(DateParts(row)[1]))
    \/ ~IsNumeric(RemoveCommas(row.Min))
    \/ ~IsNumeric(RemoveCommas(row.Max))
    \/ ~IsNumeric(RemoveCommas(row.Rate))

\* one of int(), datetime(), float() raises inside the try block
\* (evaluated in the code's order; all of them come before the first append)
RowRaises(row, year) ==
    /\ HasTwoParts(row)
    /\ \/ ~IsNumeric(DateParts(row)[1])
       \/ ~IsNumeric(DateParts(row)[2])
       \/ ~ValidDate(year, NumVal(DateParts(row)[2]), NumVal(DateParts(row)[1]))
       \/ ~IsNumeric(RemoveCommas(row.Min))
       \/ ~IsNumeric(RemoveCommas(row.Max))
       \/ ~IsNumeric(RemoveCommas(row.Rate))

\* the row reaches formatted_data.append(formatted_row)
RowParsed(row, year) == HasTwoParts(row) /\ ~RowRaises(row, year)

FormattedRow(row, year) ==
    [Date |-> Strftime(FullDate(row, year)),
     Weekday |-> row.Weekday,
     Min |-> NumVal(RemoveCommas(row.Min)),
     Max |-> NumVal(RemoveCommas(row.Max)),
     Rate |-> NumVal(RemoveCommas(row.Rate))]

\* if row['Weekday'].lower() == 'friday'
IsFridayRow(row) == Lower(row.Weekday) = s_friday

\* a variant: the Saturday row takes its Min from the wrong column
SaturdayRowMixed(row, year) ==
    [Date |-> Strftime(AddDays(FullDate(row, year), 1)),
     Weekday |-> s_Saturday,
     Min |-> NumVal(RemoveCommas(row.Max)),
     Max |-> NumVal(RemoveCommas(row.Max)),
     Rate |-> NumVal(RemoveCommas(row.Rate))]

SaturdayRow(row, year) ==
    [Date |-> Strftime(AddDays(FullDate(row, year), 1)),
     Weekday |-> s_Saturday,
     Min |-> NumVal(RemoveCommas(row.Min)),
     Max |-> NumVal(RemoveCommas(row.Max)),
     Rate |-> NumVal(RemoveCommas(row.Rate))]

\* a variant: the Sunday row is dated one day after the Friday
SundayRowNextDay(row, year) ==
    [Date |-> Strftime(AddDays(FullDate(row, year), 1)),
     Weekday |-> s_Sunday,
     Min |-> NumVal(RemoveCommas(row.Min)),
     Max |-> NumVal(RemoveCommas(row.Max)),
     Rate |-> NumVal(RemoveCommas(row.Rate))]

SundayRow(row, year) ==
    [Date |-> Strftime(AddDays(FullDate(row, year), 2)),
     Weekday |-> s_Sunday,
     Min |-> NumVal(RemoveCommas(row.Min)),
     Max |-> NumVal(RemoveCommas(row.Max)),
     Rate |-> NumVal(RemoveCommas(row.Rate))]

\* a variant: only the Saturday row is added after a Friday
RowRecordsSaturdayOnly(row, year) ==
    IF ~RowParsed(row, year) THEN <<>>
    ELSE <<FormattedRow(row, year)>>
         \o (IF IsFridayRow(row) THEN <<SaturdayRow(row, year)>> ELSE <<>>)

\* a variant: the date is put together without datetime(), so no date is refused
RowRecordsUncheckedDate(row, year) ==
    IF /\ HasTwoParts(row)
       /\ IsNumeric(DateParts(row)[1])
       /\ IsNumeric(DateParts(row)[2])
       /\ IsNumeric(RemoveCommas(row.Min))
       /\ IsNumeric(RemoveCommas(row.Max))
       /\ IsNumeric(RemoveCommas(row.Rate))
    THEN <<FormattedRow(row, year)>>
         \o (IF IsFridayRow(row) THEN <<SaturdayRow(row, year), SundayRow(row, year)>>
             ELSE <<>>)
    ELSE <<>>

\* the records one iteration of the loop appends to formatted_data
RowRecords(row, year) ==
    IF ~RowParsed(row, year) THEN <<>>
    ELSE <<FormattedRow(row, year)>>
         \o (IF IsFridayRow(row) THEN <<SaturdayRow(row, year), SundayRow(row, year)>>
             ELSE <<>>)

\* the reports one iteration of the loop prints from its except branch
RowReports(row, year, i) ==
    IF RowRaises(row, year) THEN <<[i |-> i, row |-> row]>> ELSE <<>>

\* history: which row and which append (0 main row, 1 Saturday, 2 Sunday)
RowOrigins(row, year, i) ==
    [j \in 1..Len(RowRecords(row, year)) |-> [row |-> i + 1, off |-> j - 1]]

-----------------------------------------------------------------------------
(* Inputs *)

Years == {2024, 2025}

RawRow(d, w, mn, mx, rt) == [Date |-> d, Weekday |-> w, Min |-> mn, Max |-> mx, Rate |-> rt]

s_2507 == <<"2", "5", "/", "0", "7">>
s_2807 == <<"2", "8", "/", "0", "7">>
s_2607 == <<"2", "6", "/", "0", "7">>
s_3112 == <<"3", "1", "/", "1", "2">>
s_2802 == <<"2", "8", "/", "0", "2">>
s_3104 == <<"3", "1", "/", "0", "4">>
s_x07 == <<"x", "/", "0", "7">>
s_25dash07 == <<"2", "5", "-", "0", "7">>
s_4050 == <<"4", ",", "0", "5", "0">>
s_4100 == <<"4", ",", "1", "0", "0">>
s_4075 == <<"4", ",", "0", "7", "5">>
s_7 == <<"7">>
s_8 == <<"8">>
s_9 == <<"9">>
s_na == <<"n", "/", "a">>
s_dash == <<"-">>
s_Friday == <<"F", "r", "i", "d", "a", "y">>
s_FRIDAY == <<"F", "R", "I", "D", "A", "Y">>
s_Monday == <<"M", "o", "n", "d", "a", "y">>
s_blank == <<" ">>
s_empty == <<>>

\* the rows given to process_and_format_data
RowInputs ==
    { RawRow(s_2507, s_Friday, s_4050, s_4100, s_4075),    \* the spec's example
      RawRow(s_3112, s_FRIDAY, s_7, s_8, s_9),             \* upper case, year end
      RawRow(s_2802, s_friday, s_7, s_8, s_9),             \* lower case, end of February
      RawRow(s_2807, s_Monday, s_9, s_8, s_7),
      RawRow(s_2607, s_Saturday, s_8, s_9, s_7),           \* the source labels a weekend day
      RawRow(s_3104, s_Friday, s_7, s_8, s_9),             \* no such calendar date
      RawRow(s_2507, s_Friday, s_na, s_8, s_9),            \* Min is not numeric
      RawRow(s_2507, s_Monday, s_7, s_8, s_dash),          \* Rate is not numeric
      RawRow(s_25dash07, s_Monday, s_7, s_8, s_9),         \* no '/' in Date
      RawRow(s_blank, s_empty, s_empty, s_blank, s_empty)  \* blank: empty or spaces
    }

RowLists == UNION {[1..n -> RowInputs] : n \in 0..MaxRows}

\* the <tr> elements of a table: the texts of their <td> cells
TrInputs ==
    { <<>>,                                                \* a header row: no <td>
      <<s_2507, s_Friday, s_4050, s_4100>>,                \* four cells
      <<s_blank \o s_2507 \o s_blank, s_Friday \o s_blank, s_4050, s_4100, s_4075>>,
      <<s_2807, s_Monday, s_7, s_8, s_9, s_blank>>,        \* six cells
      <<s_empty, s_blank, s_empty, s_blank, s_empty>>,     \* blank
      <<s_x07, s_Monday, s_7, s_8, s_9>>,                  \* the day is no integer
      <<s_2507, s_Monday, s_7, s_empty, s_9>>             \* Max is not numeric
    }

TrLists == UNION {[1..n -> TrInputs] : n \in 0..MaxRows}

-----------------------------------------------------------------------------
(* scrape_with_selenium: the row loop *)

\* row_data of a <tr> with at least five cells
RowData(cells) ==
    RawRow(Strip(cells[1]), Strip(cells[2]), Strip(cells[3]), Strip(cells[4]), Strip(cells[5]))

\* any(row_data.values())
AnyValue(row) ==
    row.Date # <<>> \/ row.Weekday # <<>> \/ row.Min # <<>> \/ row.Max # <<>> \/ row.Rate # <<>>

\* what one iteration of the row loop appends to data
Extracted(cells) ==
    IF Len(cells) >= 5 /\ AnyValue(RowData(cells)) THEN <<RowData(cells)>> ELSE <<>>

\* one iteration of `for i, row in enumerate(rows)`
ExtractRow ==
    /\ pc = "extract"
    /\ ri < Len(rows)
    /\ data' = data \o Extracted(rows[ri + 1])
    /\ ri' = ri + 1
    /\ UNCHANGED <<pc, rows, processVars, result, scrape_error, exit_code, saveVars>>

\* the loop is over: formatted_data = process_and_format_data(data)
ExtractDone ==
    /\ pc = "extract"
    /\ ri = Len(rows)
    /\ pc' = "process"
    /\ raw_data' = data
    /\ \E y \in Years : current_year' = y
    /\ idx' = 0
    /\ formatted_data' = <<>>
    /\ UNCHANGED <<scrapeVars, errors, origin, result, scrape_error, exit_code, saveVars>>

-----------------------------------------------------------------------------
(* process_and_format_data: the loop *)

\* a returned value: Python's None, or a list
None == [none |-> TRUE, value |-> <<>>]
Some(v) == [none |-> FALSE, value |-> v]

\* one iteration of `for i, row in enumerate(raw_data)`
ProcessRow ==
    /\ pc = "process"
    /\ idx < Len(raw_data)
    /\ formatted_data' = formatted_data \o RowRecords(raw_data[idx + 1], current_year)
    /\ errors' = errors \o RowReports(raw_data[idx + 1], current_year, idx)
    /\ origin' = origin \o RowOrigins(raw_data[idx + 1], current_year, idx)
    /\ idx' = idx + 1
    /\ UNCHANGED <<pc, scrapeVars, raw_data, current_year, result, scrape_error,
                   exit_code, saveVars>>

\* return formatted_data
ProcessDone ==
    /\ pc = "process"
    /\ idx = Len(raw_data)
    /\ pc' = "returned"
    /\ result' = Some(formatted_data)
    /\ UNCHANGED <<scrapeVars, processVars, scrape_error, exit_code, saveVars>>

-----------------------------------------------------------------------------
(* save_data *)

TicksPerSecond == 2   \* clock ticks in one second: the clock is finer than the timestamp

s_dot == <<".">>
s_out == <<"o", "u", "t">>
s_slash == <<"/">>
s_xlsx_name == <<"f", "o", "r", "e", "c", "a", "s", "t", "_", "u", "s", "d", ".", "x", "l", "s", "x">>
s_csv_name == <<"f", "o", "r", "e", "c", "a", "s", "t", "_", "u", "s", "d", ".", "c", "s", "v">>
s_json_prefix == <<"f", "o", "r", "e", "c", "a", "s", "t", "_", "u", "s", "d", "_">>
s_json_suffix == <<".", "j", "s", "o", "n">>
s_fallback_name == <<"f", "o", "r", "e", "c", "a", "s", "t", "_", "u", "s", "d", "_", "f", "a", "l", "l", "b", "a", "c", "k", ".", "c", "s", "v">>
s_day == <<"2", "0", "2", "5", "0", "7", "2", "5", "_">>

\* the directories save_data is given
PathInputs == {s_dot, s_out}

\* a variant: the timestamp stops at the minute
TimestampToMinute(t) ==
    LET sec == t \div TicksPerSecond
    IN  s_day \o Padded(sec \div 3600, 2) \o Padded((sec \div 60) % 60, 2)

\* datetime.now().strftime("%Y%m%d_%H%M%S") at clock tick t (all ticks are on one day)
Timestamp(t) ==
    LET sec == t \div TicksPerSecond
    IN  s_day \o Padded(sec \div 3600, 2) \o Padded((sec \div 60) % 60, 2) \o Padded(sec % 60, 2)

\* os.path.join(output_path, name)
Join(dir, name) == dir \o s_slash \o name

ExcelFilename(dir) == Join(dir, s_xlsx_name)
CsvFilename(dir) == Join(dir, s_csv_name)
JsonFilename(dir, ts) == Join(dir, s_json_prefix \o ts \o s_json_suffix)
FallbackFilename == s_fallback_name

\* the file a path names: a relative path is taken from the working directory "."
RECURSIVE FileOf(_)
FileOf(path) ==
    IF Len(path) >= 2 /\ SubSeq(path, 1, 2) = s_dot \o s_slash
    THEN FileOf(SubSeq(path, 3, Len(path)))
    ELSE path

Content(kind, d) == [kind |-> kind, rows |-> d]

\* the file system after path is written with content c
Write(f, path, c) ==
    [n \in DOMAIN f \cup {FileOf(path)} |-> IF n = FileOf(path) THEN c ELSE f[n]]

\* the file system after a write to path raised: the file is as it was
FailedWrite(f, path) == f

\* save_data(data, output_path) is called
SaveCall(d, p) ==
    /\ save_arg' = [data |-> d, output_path |-> p]
    /\ output_path' = p
    /\ attempts' = <<>>
    /\ raised' = FALSE
    /\ save_ret' = <<>>
    /\ pc' = "save_enter"

\* `if not data: return`, the makedirs block, the timestamp
SaveEnter ==
    /\ pc = "save_enter"
    /\ IF save_arg.data = <<>>
       THEN /\ pc' = "save_returned"
            /\ save_ret' = <<"None">>
            /\ calls' = Append(calls, [dir |-> output_path, ts |-> <<>>, data |-> <<>>,
                                       written |-> <<>>, raised |-> FALSE, tick |-> clock])
            /\ UNCHANGED <<dirs, output_path, timestamp>>
       ELSE /\ pc' = "save_excel"
            /\ timestamp' = Timestamp(clock)
            /\ \/ /\ output_path \in dirs
                  /\ UNCHANGED <<dirs, output_path>>
               \/ /\ output_path \notin dirs          \* os.makedirs succeeds
                  /\ dirs' = dirs \cup {output_path}
                  /\ UNCHANGED output_path
               \/ /\ output_path \notin dirs          \* os.makedirs raises
                  /\ output_path' = s_dot
                  /\ UNCHANGED dirs
            /\ UNCHANGED <<save_ret, calls>>
    /\ UNCHANGED <<scrapeVars, processVars, result, scrape_error, exit_code, clock, fs,
                   save_arg, attempts, raised>>

\* a variant: every write has a try block of its own, so a failure goes on to `next`
TryWriteOwnBlock(at, path, kind, next) ==
    /\ pc = at
    /\ \/ /\ fs' = Write(fs, path, Content(kind, save_arg.data))
          /\ attempts' = Append(attempts, [path |-> path, ok |-> TRUE])
          /\ UNCHANGED raised
       \/ /\ fs' = FailedWrite(fs, path)
          /\ attempts' = Append(attempts, [path |-> path, ok |-> FALSE])
          /\ raised' = TRUE
    /\ pc' = next
    /\ UNCHANGED <<scrapeVars, processVars, result, scrape_error, exit_code, clock, dirs,
                   save_arg, output_path, timestamp, save_ret, calls>>

\* one write of the outer try block: it succeeds and control goes on to `next`,
\* or it raises and control goes to the except branch
TryWrite(at, path, kind, next) ==
    /\ pc = at
    /\ \/ /\ fs' = Write(fs, path, Content(kind, save_arg.data))
          /\ attempts' = Append(attempts, [path |-> path, ok |-> TRUE])
          /\ pc' = next
          /\ UNCHANGED raised
       \/ /\ fs' = FailedWrite(fs, path)
          /\ attempts' = Append(attempts, [path |-> path, ok |-> FALSE])
          /\ raised' = TRUE
          /\ pc' = "save_fallback"
    /\ UNCHANGED <<scrapeVars, processVars, result, scrape_error, exit_code, clock, dirs,
                   save_arg, output_path, timestamp, save_ret, calls>>

\* with pd.ExcelWriter(excel_filename, ...) as writer: new_df.to_excel(...)
SaveExcel == TryWrite("save_excel", ExcelFilename(output_path), "xlsx", "save_csv")

\* new_df.to_csv(csv_filename, index=False)
SaveCsv == TryWrite("save_csv", CsvFilename(output_path), "csv", "save_json")

\* with open(json_filename, 'w') as f: json.dump(data, f, ...)
SaveJson == TryWrite("save_json", JsonFilename(output_path, timestamp), "json", "save_return")

\* a variant: the fallback write has no try block, so its failure leaves save_data
SaveFallbackUncaught ==
    /\ pc = "save_fallback"
    /\ \/ /\ fs' = Write(fs, FallbackFilename, Content("csv", save_arg.data))
          /\ attempts' = Append(attempts, [path |-> FallbackFilename, ok |-> TRUE])
          /\ pc' = "save_return"
       \/ /\ fs' = FailedWrite(fs, FallbackFilename)
          /\ attempts' = Append(attempts, [path |-> FallbackFilename, ok |-> FALSE])
          /\ pc' = "save_raised"
    /\ UNCHANGED <<scrapeVars, processVars, result, scrape_error, exit_code, clock, dirs,
                   save_arg, output_path, timestamp, raised, save_ret, calls>>

\* except Exception: new_df.to_csv("forecast_usd_fallback.csv"), itself in a try block
SaveFallback ==
    /\ pc = "save_fallback"
    /\ \/ /\ fs' = Write(fs, FallbackFilename, Content("csv", save_arg.data))
          /\ attempts' = Append(attempts, [path |-> FallbackFilename, ok |-> TRUE])
       \/ /\ fs' = FailedWrite(fs, FallbackFilename)
          /\ attempts' = Append(attempts, [path |-> FallbackFilename, ok |-> FALSE])
    /\ pc' = "save_return"
    /\ UNCHANGED <<scrapeVars, processVars, result, scrape_error, exit_code, clock, dirs,
                   save_arg, output_path, timestamp, raised, save_ret, calls>>

\* the preview, then `return excel_filename`
SaveReturn ==
    /\ pc = "save_return"
    /\ save_ret' = ExcelFilename(output_path)
    /\ calls' = Append(calls, [dir |-> output_path, ts |-> timestamp, data |-> save_arg.data,
                               written |-> attempts, raised |-> raised, tick |-> clock])
    /\ pc' = "save_returned"
    /\ UNCHANGED <<scrapeVars, processVars, result, scrape_error, exit_code, clock, fs, dirs,
                   save_arg, output_path, timestamp, attempts, raised>>

\* the data sets save_data is given: none, the spec's example, one Monday
DataInputs ==
    { <<>>,
      RowRecords(RawRow(s_2507, s_Friday, s_4050, s_4100, s_4075), 2025),
      RowRecords(RawRow(s_2807, s_Monday, s_9, s_8, s_7), 2025) }

\* a caller invokes save_data
Invoke ==
    /\ pc \in {"idle", "save_returned"}
    /\ Len(calls) < MaxCalls
    /\ \E d \in DataInputs, p \in PathInputs : SaveCall(d, p)
    /\ UNCHANGED <<scrapeVars, processVars, result, scrape_error, exit_code, clock, fs, dirs,
                   timestamp, calls>>

\* time passes between two calls
Tick ==
    /\ pc \in {"idle", "save_returned"}
    /\ clock < MaxClock
    /\ clock' = clock + 1
    /\ UNCHANGED <<pc, scrapeVars, processVars, result, scrape_error, exit_code, fs, dirs,
                   save_arg, output_path, timestamp, attempts, raised, save_ret, calls>>

-----------------------------------------------------------------------------
(* scrape_with_selenium around the row loop, and the main block *)

\* webdriver.Chrome(), driver.get() or WebDriverWait(...).until() raises
BrowserFails ==
    /\ pc = "main"
    /\ scrape_error' = "exception"
    /\ result' = None
    /\ pc' = "main_check"
    /\ UNCHANGED <<scrapeVars, processVars, exit_code, saveVars>>

\* `if not target_table: return None`
TableNotFound ==
    /\ pc = "main"
    /\ scrape_error' = "no_table"
    /\ result' = None
    /\ pc' = "main_check"
    /\ UNCHANGED <<scrapeVars, processVars, exit_code, saveVars>>

\* rows = target_table.find_elements(By.TAG_NAME, "tr")
TableFound ==
    /\ pc = "main"
    /\ \E t \in TrLists : rows' = t
    /\ ri' = 0
    /\ data' = <<>>
    /\ pc' = "extract"
    /\ UNCHANGED <<processVars, result, scrape_error, exit_code, saveVars>>

\* row.find_elements() or cell.text raises inside the row loop
ExtractRaises ==
    /\ pc = "extract"
    /\ ri < Len(rows)
    /\ scrape_error' = "exception"
    /\ result' = None
    /\ pc' = "main_check"
    /\ UNCHANGED <<scrapeVars, processVars, exit_code, saveVars>>

\* return formatted_data; finally: driver.quit()
ScrapeReturns ==
    /\ pc = "returned"
    /\ pc' = "main_check"
    /\ UNCHANGED <<scrapeVars, processVars, result, scrape_error, exit_code, saveVars>>

\* a variant: `if data is not None`
MainCheckNotNone ==
    /\ pc = "main_check"
    /\ IF ~result.none
       THEN /\ SaveCall(result.value, s_dot)
            /\ UNCHANGED exit_code
       ELSE /\ exit_code' = 1
            /\ pc' = "exited"
            /\ UNCHANGED <<save_arg, output_path, attempts, raised, save_ret>>
    /\ UNCHANGED <<scrapeVars, processVars, result, scrape_error, clock, fs, dirs,
                   timestamp, calls>>

\* `if data: excel_file = save_data(data)` / `else: ... exit(1)`
MainCheck ==
    /\ pc = "main_check"
    /\ IF ~result.none /\ result.value # <<>>
       THEN /\ SaveCall(result.value, s_dot)
            /\ UNCHANGED exit_code
       ELSE /\ exit_code' = 1
            /\ pc' = "exited"
            /\ UNCHANGED <<save_arg, output_path, attempts, raised, save_ret>>
    /\ UNCHANGED <<scrapeVars, processVars, result, scrape_error, clock, fs, dirs,
                   timestamp, calls>>

\* save_data returned: the script runs off its end
MainEnds ==
    /\ pc = "save_returned"
    /\ exit_code' = 0
    /\ pc' = "exited"
    /\ UNCHANGED <<scrapeVars, processVars, result, scrape_error, saveVars>>

-----------------------------------------------------------------------------
(* Specifications *)

Idle ==
    /\ rows = <<>> /\ ri = 0 /\ data = <<>>
    /\ raw_data = <<>> /\ current_year \in Years /\ idx = 0
    /\ formatted_data = <<>> /\ errors = <<>> /\ origin = <<>>
    /\ result = None /\ scrape_error = "" /\ exit_code = -1
    /\ clock = 0 /\ fs = <<>> /\ dirs = {s_dot}
    /\ save_arg = [data |-> <<>>, output_path |-> s_dot]
    /\ output_path = s_dot /\ timestamp = <<>> /\ attempts = <<>>
    /\ raised = FALSE /\ save_ret = <<>> /\ calls = <<>>

\* the script is run
Init == pc = "main" /\ Idle /\ current_year = 2025

Next ==
    \/ BrowserFails \/ TableNotFound \/ TableFound
    \/ ExtractRaises \/ ExtractRow \/ ExtractDone
    \/ ProcessRow \/ ProcessDone \/ ScrapeReturns
    \/ MainCheck \/ SaveEnter \/ SaveExcel \/ SaveCsv \/ SaveJson \/ SaveFallback
    \/ SaveReturn \/ MainEnds

Spec == Init /\ [][Next]_vars

\* process_and_format_data is given a row list, or the row loop is run on a table
InitProcess ==
    \/ /\ pc = "process"
       /\ \E l \in RowLists :
            /\ rows = <<>> /\ ri = 0 /\ data = <<>>
            /\ raw_data = l /\ current_year \in Years /\ idx = 0
            /\ formatted_data = <<>> /\ errors = <<>> /\ origin = <<>>
            /\ result = None /\ scrape_error = "" /\ exit_code = -1
            /\ clock = 0 /\ fs = <<>> /\ dirs = {s_dot}
            /\ save_arg = [data |-> <<>>, output_path |-> s_dot]
            /\ output_path = s_dot /\ timestamp = <<>> /\ attempts = <<>>
            /\ raised = FALSE /\ save_ret = <<>> /\ calls = <<>>
    \/ /\ pc = "extract"
       /\ \E t \in TrLists :
            /\ rows = t /\ ri = 0 /\ data = <<>>
            /\ raw_data = <<>> /\ current_year = 2025 /\ idx = 0
            /\ formatted_data = <<>> /\ errors = <<>> /\ origin = <<>>
            /\ result = None /\ scrape_error = "" /\ exit_code = -1
            /\ clock = 0 /\ fs = <<>> /\ dirs = {s_dot}
            /\ save_arg = [data |-> <<>>, output_path |-> s_dot]
            /\ output_path = s_dot /\ timestamp = <<>> /\ attempts = <<>>
            /\ raised = FALSE /\ save_ret = <<>> /\ calls = <<>>

NextProcess == ExtractRow \/ ExtractDone \/ ProcessRow \/ ProcessDone

SpecProcess == InitProcess /\ [][NextProcess]_vars

\* save_data is called again and again on one file system
InitSave == pc = "idle" /\ Idle /\ current_year = 2025

NextSave ==
    \/ Invoke \/ Tick
    \/ SaveEnter \/ SaveExcel \/ SaveCsv \/ SaveJson \/ SaveFallback \/ SaveReturn

SpecSave == InitSave /\ [][NextSave]_vars

-----------------------------------------------------------------------------
(* Properties of process_and_format_data *)

\* the entries of formatted_data that row k of raw_data appended
Positions(k) == {p \in 1..Len(formatted_data) : origin[p].row = k}

\* w is "friday" up to the case of each letter
IsFridayLabel(w) ==
    /\ Len(w) = 6
    /\ \A j \in 1..6 : w[j] = s_Friday[j] \/ w[j] = s_FRIDAY[j] \/ w[j] = s_friday[j]

\* the day number of the date a "DD/MM/YYYY" string names (0 if it is not of that form)
DaysBeforeMonth == <<0, 31, 59, 90, 120, 151, 181, 212, 243, 273, 304, 334>>
DayNumber(s) ==
    IF Len(s) = 10 /\ s[3] = "/" /\ s[6] = "/"
       /\ \A j \in {1, 2, 4, 5, 7, 8, 9, 10} : IsDigit(s[j])
    THEN LET d == 10 * DigitVal(s[1]) + DigitVal(s[2])
             m == 10 * DigitVal(s[4]) + DigitVal(s[5])
             y == 1000 * DigitVal(s[7]) + 100 * DigitVal(s[8]) + 10 * DigitVal(s[9])
                  + DigitVal(s[10])
             leap == (y % 4 = 0 /\ y % 100 # 0) \/ y % 400 = 0
         IN  IF m \in 1..12
             THEN 365 * (y - 1) + ((y - 1) \div 4) - ((y - 1) \div 100) + ((y - 1) \div 400)
                  + DaysBeforeMonth[m] + (IF leap /\ m > 2 THEN 1 ELSE 0) + d
             ELSE 0
    ELSE 0

SameValues(a, b) == a.Min = b.Min /\ a.Max = b.Max /\ a.Rate = b.Rate

\* C1: every parsed row handled so far has its own record in the output; if its
\* Weekday is "friday" ignoring case, that record is followed at once by exactly two
\* more records of the row: "Saturday" dated one day later, then "Sunday" dated two
\* days later, both with the row's Min, Max and Rate; a row with any other Weekday
\* has no record but its own.
C1_FridayWeekend ==
    \A k \in 1..idx :
        RowParsed(raw_data[k], current_year) =>
            \E p \in 1..Len(formatted_data) :
                /\ origin[p] = [row |-> k, off |-> 0]
                /\ formatted_data[p].Weekday = raw_data[k].Weekday
                /\ DayNumber(formatted_data[p].Date) > 0
                /\ IF IsFridayLabel(raw_data[k].Weekday)
                   THEN /\ Positions(k) = {p, p + 1, p + 2}
                        /\ formatted_data[p + 1].Weekday = s_Saturday
                        /\ DayNumber(formatted_data[p + 1].Date)
                              = DayNumber(formatted_data[p].Date) + 1
                        /\ SameValues(formatted_data[p + 1], formatted_data[p])
                        /\ formatted_data[p + 2].Weekday = s_Sunday
                        /\ DayNumber(formatted_data[p + 2].Date)
                              = DayNumber(formatted_data[p].Date) + 2
                        /\ SameValues(formatted_data[p + 2], formatted_data[p])
                   ELSE Positions(k) = {p}

s_02012026 == <<"0", "2", "/", "0", "1", "/", "2", "0", "2", "6">>
s_01032025 == <<"0", "1", "/", "0", "3", "/", "2", "0", "2", "5">>

\* a finished run in which an upper-case FRIDAY on 31 December rolled over the year
\* end, a lower-case friday on 28 February rolled over the month end, and a Monday
\* row was parsed
C1_Witness ==
    /\ pc = "returned"
    /\ \E p \in 1..Len(formatted_data) :
          formatted_data[p].Weekday = s_Sunday /\ formatted_data[p].Date = s_02012026
    /\ \E p \in 1..Len(formatted_data) :
          formatted_data[p].Weekday = s_Saturday /\ formatted_data[p].Date = s_01032025
    /\ \E k \in 1..Len(raw_data) :
          raw_data[k].Weekday = s_Monday /\ RowParsed(raw_data[k], current_year)

ParsedRows == {k \in 1..idx : RowParsed(raw_data[k], current_year)}
ParsedFridays == {k \in ParsedRows : IsFridayLabel(raw_data[k].Weekday)}

\* C2 (as stated): the output has N + 3 * F entries, for N parsed rows of which F are Fridays
C2_LengthAsStated ==
    pc = "returned" =>
        Len(result.value) = Cardinality(ParsedRows) + 3 * Cardinality(ParsedFridays)

\* C2 (amended): the output has N + 2 * F entries, for N parsed rows of which F are Fridays
C2_Length ==
    /\ Len(formatted_data) = Cardinality(ParsedRows) + 2 * Cardinality(ParsedFridays)
    /\ pc = "returned" => result = Some(formatted_data) /\ idx = Len(raw_data)

\* a finished run over three parsed rows, two of them Fridays
C2_Witness ==
    /\ pc = "returned"
    /\ Cardinality(ParsedRows) = 3
    /\ Cardinality(ParsedFridays) = 2

\* the parse failures C4 names: Min, Max or Rate not numeric once the commas are
\* removed, or a day/month that is no date of the current year
NamedFailure(row, year) ==
    LET parts == Split(row.Date, "/")
    IN  /\ Len(parts) = 2
        /\ \/ ~IsNumeric(RemoveCommas(row.Min))
           \/ ~IsNumeric(RemoveCommas(row.Max))
           \/ ~IsNumeric(RemoveCommas(row.Rate))
           \/ /\ IsNumeric(parts[1]) /\ IsNumeric(parts[2])
              /\ ~ValidDate(year, NumVal(parts[2]), NumVal(parts[1]))

\* what a valid row becomes: its record, and after a Friday the two weekend records
Expansion(row, year) ==
    <<FormattedRow(row, year)>>
    \o (IF IsFridayLabel(row.Weekday) THEN <<SaturdayRow(row, year), SundayRow(row, year)>>
        ELSE <<>>)

\* the expansions of the valid rows among the first n rows of l, in the order of l
RECURSIVE ExpansionsOf(_, _, _)
ExpansionsOf(l, n, year) ==
    IF n = 0 THEN <<>>
    ELSE ExpansionsOf(l, n - 1, year)
         \o (IF RowParsed(l[n], year) THEN Expansion(l[n], year) ELSE <<>>)

\* C4: a row that fails parsing (non-numeric Min, Max or Rate, or an invalid date)
\* leaves no record of any kind in the output and does not stop the loop: after i
\* rows the output is the concatenation, in source order, of the expansions of the
\* valid rows among them, and the function returns only after the last row.
C4_RowIsolation ==
    /\ \A k \in 1..idx :
          NamedFailure(raw_data[k], current_year) => Positions(k) = {}
    /\ formatted_data = ExpansionsOf(raw_data, idx, current_year)
    /\ \A p, q \in 1..Len(origin) : p < q => origin[p].row <= origin[q].row
    /\ pc = "returned" => idx = Len(raw_data) /\ result = Some(formatted_data)

\* a finished run over three rows: a valid row, a row that failed, a valid row
C4_Witness ==
    /\ pc = "returned"
    /\ Len(raw_data) = 3
    /\ RowParsed(raw_data[1], current_year)
    /\ NamedFailure(raw_data[2], current_year)
    /\ IsFridayLabel(raw_data[2].Weekday)
    /\ RowParsed(raw_data[3], current_year)
    /\ Positions(1) # {} /\ Positions(2) = {} /\ Positions(3) # {}

\* C6 (as stated): every "Saturday" record of the output has the values of a Friday
\* record right before it, every "Sunday" record those of a Friday record two before it
C6_WeekendAsStated ==
    \A p \in 1..Len(formatted_data) :
        /\ formatted_data[p].Weekday = s_Saturday =>
              /\ p > 1
              /\ IsFridayLabel(formatted_data[p - 1].Weekday)
              /\ SameValues(formatted_data[p], formatted_data[p - 1])
        /\ formatted_data[p].Weekday = s_Sunday =>
              /\ p > 2
              /\ IsFridayLabel(formatted_data[p - 2].Weekday)
              /\ SameValues(formatted_data[p], formatted_data[p - 2])

\* C6 (amended): every "Saturday" or "Sunday" record of the output either is the
\* record of a source row that carries that label itself, or has the values of a
\* Friday record right before it (Saturday) or two before it (Sunday)
C6_Weekend ==
    \A p \in 1..Len(formatted_data) :
        LET own == /\ origin[p].off = 0
                   /\ raw_data[origin[p].row].Weekday = formatted_data[p].Weekday
        IN  /\ formatted_data[p].Weekday = s_Saturday =>
                  \/ own
                  \/ /\ p > 1
                     /\ IsFridayLabel(formatted_data[p - 1].Weekday)
                     /\ SameValues(formatted_data[p], formatted_data[p - 1])
            /\ formatted_data[p].Weekday = s_Sunday =>
                  \/ own
                  \/ /\ p > 2
                     /\ IsFridayLabel(formatted_data[p - 2].Weekday)
                     /\ SameValues(formatted_data[p], formatted_data[p - 2])

\* a finished run whose output holds a Saturday made from a Friday and a Saturday of
\* the source with values of its own
C6_Witness ==
    /\ pc = "returned"
    /\ \E p \in 1..Len(formatted_data) :
          formatted_data[p].Weekday = s_Saturday /\ origin[p].off = 1
    /\ \E p \in 1..Len(formatted_data) :
          /\ formatted_data[p].Weekday = s_Saturday /\ origin[p].off = 0
          /\ p > 1 /\ ~SameValues(formatted_data[p], formatted_data[p - 1])

\* every field of the row is empty or blank
IsBlankRow(row) ==
    /\ Strip(row.Date) = <<>> /\ Strip(row.Weekday) = <<>> /\ Strip(row.Min) = <<>>
    /\ Strip(row.Max) = <<>> /\ Strip(row.Rate) = <<>>

Reported(k) == \E e \in 1..Len(errors) : errors[e] = [i |-> k - 1, row |-> raw_data[k]]

\* C9: every row handled so far that left no record and is not blank has been reported
C9_RejectedIsReported ==
    \A k \in 1..idx :
        (Positions(k) = {} /\ ~IsBlankRow(raw_data[k])) => Reported(k)

\* l without its blank rows
IsNotBlankRow(row) == ~IsBlankRow(row)
WithoutBlank(l) == SelectSeq(l, IsNotBlankRow)

\* the rows the reports name, in order
ReportedRows == [e \in 1..Len(errors) |-> errors[e].row]

\* the rows of l that raise, in order
RECURSIVE RaisingRows(_, _)
RaisingRows(l, year) ==
    IF l = <<>> THEN <<>>
    ELSE (IF RowRaises(Head(l), year) THEN <<Head(l)>> ELSE <<>>) \o RaisingRows(Tail(l), year)

\* the <tr> elements among the first n of t that have five cells or more, not all blank
RECURSIVE Kept(_, _)
Kept(t, n) ==
    IF n = 0 THEN <<>>
    ELSE Kept(t, n - 1)
         \o (IF Len(t[n]) >= 5 /\ \E j \in 1..5 : Strip(t[n][j]) # <<>>
             THEN <<t[n]>> ELSE <<>>)

\* C10: a blank row leaves no record and no report, in the extractor's row loop
\* (it never enters data) and in process_and_format_data, and the output and the
\* rows reported are those of the same list without its blank rows
C10_BlankIsSilent ==
    /\ \A k \in 1..idx :
          IsBlankRow(raw_data[k]) =>
              /\ Positions(k) = {}
              /\ \A e \in 1..Len(errors) : errors[e].i # k - 1 /\ errors[e].row # raw_data[k]
    /\ Len(data) = Len(Kept(rows, ri))
    /\ \A k \in 1..Len(data) :
          /\ ~IsBlankRow(data[k])
          /\ data[k].Date = Strip(Kept(rows, ri)[k][1])
          /\ data[k].Rate = Strip(Kept(rows, ri)[k][5])
    /\ pc = "returned" =>
          LET l == WithoutBlank(raw_data)
          IN  /\ formatted_data = ExpansionsOf(l, Len(l), current_year)
              /\ ReportedRows = RaisingRows(l, current_year)

\* a finished direct call on three rows: a row that is reported, a blank row, a
\* Friday that is expanded
C10_Witness ==
    /\ pc = "returned"
    /\ rows = <<>>
    /\ Len(raw_data) = 3
    /\ RowRaises(raw_data[1], current_year)
    /\ IsBlankRow(raw_data[2])
    /\ RowParsed(raw_data[3], current_year)
    /\ Len(errors) = 1
    /\ Len(formatted_data) = 3

-----------------------------------------------------------------------------
(* Properties of save_data *)

\* the attempts of a call and of the call under way
Attempted(w, path) == \E a \in 1..Len(w) : w[a].path = path
Failed(w, path) == \E a \in 1..Len(w) : w[a].path = path /\ ~w[a].ok
Succeeded(w, path) == \E a \in 1..Len(w) : w[a].path = path /\ w[a].ok
TimesAttempted(w, path) == Cardinality({a \in 1..Len(w) : w[a].path = path})

SavePositions ==
    {"save_enter", "save_excel", "save_csv", "save_json", "save_fallback", "save_return"}

\* C8: when the spreadsheet write fails, the next step is one attempt of the fallback
\* write, under a name that is none of the three regular names; whether that attempt
\* succeeds or fails, the step after it is the normal return of save_data, which
\* returns the spreadsheet's name; no call made more than one fallback attempt.
C8_FallbackOnce ==
    /\ [](/\ pc \in SavePositions \cup {"idle", "save_returned"}
          /\ TimesAttempted(attempts, FallbackFilename) <= 1
          /\ \A n \in 1..Len(calls) :
                Failed(calls[n].written, ExcelFilename(calls[n].dir)) =>
                    /\ Len(calls[n].written) = 2
                    /\ calls[n].written[2].path = FallbackFilename
          /\ FileOf(FallbackFilename) \notin
                {FileOf(ExcelFilename(output_path)), FileOf(CsvFilename(output_path)),
                 FileOf(JsonFilename(output_path, Timestamp(clock)))})
    /\ [][/\ (pc = "save_excel" /\ Failed(attempts', ExcelFilename(output_path)))
                => pc' = "save_fallback"
          /\ pc = "save_fallback"
                => /\ pc' = "save_return"
                   /\ TimesAttempted(attempts', FallbackFilename) = 1
          /\ pc = "save_return"
                => /\ pc' = "save_returned"
                   /\ save_ret' = ExcelFilename(output_path)]_vars

\* a completed call in which the spreadsheet write and the fallback write both failed
C8_Witness ==
    /\ pc = "save_returned"
    /\ Len(calls) = 1
    /\ Len(calls[1].written) = 2
    /\ calls[1].written[1] = [path |-> ExcelFilename(calls[1].dir), ok |-> FALSE]
    /\ calls[1].written[2] = [path |-> FallbackFilename, ok |-> FALSE]
    /\ save_ret = ExcelFilename(calls[1].dir)

\* the snapshot files of a directory: forecast_usd_<something>.json
IsSnapshot(n, dir) ==
    LET pre == FileOf(Join(dir, s_json_prefix))
    IN  /\ Len(n) > Len(pre) + Len(s_json_suffix)
        /\ SubSeq(n, 1, Len(pre)) = pre
        /\ SubSeq(n, Len(n) - Len(s_json_suffix) + 1, Len(n)) = s_json_suffix
SnapshotFiles(dir) == {n \in DOMAIN fs : IsSnapshot(n, dir)}

\* every call so far wrote its three files, all in directory dir, and none is under way
AllSucceededIn(dir) ==
    /\ pc \in {"idle", "save_returned"}
    /\ calls # <<>>
    /\ \A n \in 1..Len(calls) :
          calls[n].dir = dir /\ calls[n].data # <<>> /\ ~calls[n].raised

SecondOf(c) == c.tick \div TicksPerSecond

\* C7 (as stated): after k successful calls on one directory there are k snapshot files
C7_SnapshotPerCallAsStated ==
    \A dir \in PathInputs :
        AllSucceededIn(dir) => Cardinality(SnapshotFiles(dir)) = Len(calls)

\* C7 (amended): after successful calls on one directory, forecast_usd.xlsx and
\* forecast_usd.csv hold the rows of the last call only, and there is one snapshot
\* file for each second in which a call was made, holding the rows of the last call
\* made in that second: a call leaves the snapshots of other seconds as they were and
\* overwrites the snapshot of an earlier call of its own second.
C7_SnapshotPerSecond ==
    \A dir \in PathInputs :
        AllSucceededIn(dir) =>
            /\ fs[FileOf(ExcelFilename(dir))] = Content("xlsx", calls[Len(calls)].data)
            /\ fs[FileOf(CsvFilename(dir))] = Content("csv", calls[Len(calls)].data)
            /\ Cardinality(SnapshotFiles(dir))
                  = Cardinality({SecondOf(calls[n]) : n \in 1..Len(calls)})
            /\ \A n \in 1..Len(calls) :
                  LET same == {m \in 1..Len(calls) : SecondOf(calls[m]) = SecondOf(calls[n])}
                      last == CHOOSE m \in same : \A h \in same : h <= m
                  IN  /\ FileOf(JsonFilename(dir, calls[n].ts)) \in SnapshotFiles(dir)
                      /\ fs[FileOf(JsonFilename(dir, calls[n].ts))]
                            = Content("json", calls[last].data)

\* two successful calls on one directory at different clock ticks of the same second,
\* with different rows
C7_Witness ==
    /\ Len(calls) = 2
    /\ AllSucceededIn(calls[1].dir)
    /\ calls[1].tick # calls[2].tick
    /\ SecondOf(calls[1]) = SecondOf(calls[2])
    /\ calls[1].data # calls[2].data
    /\ Cardinality(SnapshotFiles(calls[1].dir)) = 1

-----------------------------------------------------------------------------
(* Properties of the script *)

\* the table holds a row that the parser accepts
UsableRow ==
    \E k \in 1..Len(rows) :
        /\ Len(rows[k]) >= 5
        /\ RowParsed(RowData(rows[k]), current_year)

\* C5: the exit status is 1 when extraction failed (an exception, no target table) or
\* no row of the table was parsed, and 0 when at least one row was parsed, whatever
\* rows were rejected and whatever writes of save_data failed
C5_ExitStatus ==
    /\ pc = "exited" =>
          /\ exit_code \in {0, 1}
          /\ exit_code # 0 <=> (scrape_error # "" \/ ~UsableRow)
    /\ pc # "exited" => exit_code = -1

\* the script ended with status 0 after a row was rejected with a report and the
\* spreadsheet write and the fallback write both failed
C5_Witness ==
    /\ pc = "exited"
    /\ exit_code = 0
    /\ errors # <<>>
    /\ Len(attempts) = 2
    /\ ~attempts[1].ok /\ ~attempts[2].ok

====
